---- MODULE Spec2Model ----
(***************************************************************************)
(* Model of the CoreML export scripts of groundtruth:                      *)
(*   scripts/export_depth.py  Depth Anything V2 export with the            *)
(*                            bicubic -> bilinear re-trace fallback        *)
(*   scripts/export_yolo.py   YOLO11n export                               *)
(* Strings whose content the code inspects (exception messages, operator   *)
(* names) are sequences of one-character strings, so that Python's `in`    *)
(* is computed as a substring search.                                      *)
(***************************************************************************)
EXTENDS Integers, Sequences, FiniteSets, TLC

VARIABLES
    pc,           \* position of export_depth.main
    interpolate,  \* the module attribute F.interpolate (process-wide dispatch entry)
    frames,       \* original_interpolate of every live force_bicubic_to_bilinear frame, innermost first
    forward,      \* the resize calls DepthWrapper.forward makes through F.interpolate
    dummy,        \* main's local `dummy`
    evalMode,     \* wrapper.training is False
    traced,       \* main's local `traced`
    mlmodel,      \* main's local `mlmodel`
    error,        \* the exception bound by `except NotImplementedError as error`
    raised,       \* the exception in flight / propagated out of main
    traceLog,     \* history: one entry per torch.jit.trace call
    lowerLog,     \* history: one entry per convert_traced_model call
    events,       \* history: order of the pipeline's events
    persisted,    \* history: artifacts written by mlmodel.save
    activations,  \* history: how many times force_bicubic_to_bilinear was entered
    calls,        \* shim client: the call through F.interpolate in progress, if any
    unwinding,    \* shim client: an exception is propagating out of a scope
    peak,         \* shim client: deepest nesting of scopes so far
    ypc,          \* position of export_yolo.main
    argv,         \* the command line after the script name
    args,         \* the parsed namespace: args.fp32
    half,         \* export_yolo.main's local `half`
    exportLog,    \* history: one entry per model.export call
    printed,      \* the precision label of the final message, "" before it
    exited        \* how export_yolo ended early: "" | "usage" | "help" | "load" | "export"

depthVars == <<pc, forward, dummy, evalMode, traced, mlmodel, error, raised,
               traceLog, lowerLog, events, persisted>>
shimVars == <<interpolate, frames, activations>>
clientVars == <<calls, unwinding, peak>>
yoloVars == <<ypc, argv, args, half, exportLog, printed, exited>>

-----------------------------------------------------------------------------
(* Bounds *)

\* longest padding, in characters, on either side of the text of a failure message
MaxPad == 1
\* most resize calls in one forward pass of the wrapped model
MaxOps == 1
\* deepest nesting of shim scopes the client opens
MaxDepth == 2

-----------------------------------------------------------------------------
(* Text *)

\* the literal "upsample_bicubic2d" of the except clause
KnownOp == <<"u", "p", "s", "a", "m", "p", "l", "e", "_", "b", "i", "c", "u", "b", "i", "c", "2", "d">>
\* other operator names a converter can reject: torch's antialiased bicubic kernel, and grid_sample
AaOp == <<"_">> \o KnownOp \o <<"_", "a", "a">>
GridSample == <<"g", "r", "i", "d", "_", "s", "a", "m", "p", "l", "e">>
ShapeText == <<"s", "h", "a", "p", "e">>
NoOp == << >>

OpIds == {KnownOp, AaOp, GridSample}

RECURSIVE Pad(_)
Pad(n) == IF n = 0 THEN << >> ELSE <<"'">> \o Pad(n - 1)

\* Python's `needle in hay` on str
Contains(needle, hay) ==
    \E i \in 0..(Len(hay) - Len(needle)) : SubSeq(hay, i + 1, i + Len(needle)) = needle

-----------------------------------------------------------------------------
(* Exceptions *)

NoError == [cls |-> "none", op |-> NoOp, msg |-> << >>]

\* What a callee can raise. cls is the Python class, msg is str(exception), op is
\* the operator the converter rejected (NoOp when the failure has another cause).
\* A failure that rejects an operator is a NotImplementedError and names it in msg.
Msgs(text) == {Pad(i) \o text \o Pad(j) : i \in 0..MaxPad, j \in 0..MaxPad}

Failures ==
    UNION {{[cls |-> "NotImplementedError", op |-> o, msg |-> m] : m \in Msgs(o)} : o \in OpIds}
    \cup {[cls |-> "NotImplementedError", op |-> NoOp, msg |-> m] : m \in Msgs(ShapeText)}
    \cup {[cls |-> "ValueError", op |-> NoOp, msg |-> m] : m \in Msgs(ShapeText) \cup Msgs(KnownOp)}

Str(e) == e.msg

\* `except NotImplementedError as error`
Caught(e) == e.cls = "NotImplementedError"

\* `if "upsample_bicubic2d" not in str(error): raise`
Reraised(e) == ~Contains(KnownOp, Str(e))

-----------------------------------------------------------------------------
(* F.interpolate *)

\* A dispatch entry is torch's own interpolate, or a patched_interpolate closure
\* <<o>> whose captured original_interpolate is the entry o.
original == << >>
Closure(o) == <<o>>

Omitted == "omitted"
Fields == {"size", "scale_factor", "mode", "align_corners", "recompute_scale_factor", "antialias"}

\* the keyword defaults of the signature
Default(field) ==
    CASE field = "size" -> "None"
      [] field = "scale_factor" -> "None"
      [] field = "mode" -> "nearest"
      [] field = "align_corners" -> "None"
      [] field = "recompute_scale_factor" -> "None"
      [] field = "antialias" -> "False"

Bind(call) ==
    [f \in DOMAIN call |->
        IF f \in Fields /\ call[f] = Omitted THEN Default(f) ELSE call[f]]

\* torch.nn.functional.interpolate: the resize it executes, with its parameters
OriginalInterpolate(call) == Bind(call)

RECURSIVE Apply(_, _)

\* faulty variant: align_corners is not forwarded
patched_interpolate_drops(original_interpolate, call) ==
    LET b == Bind(call)
        mode == IF b.mode = "bicubic" THEN "bilinear" ELSE b.mode
    IN  Apply(original_interpolate,
              [input |-> b.input,
               size |-> b.size,
               scale_factor |-> b.scale_factor,
               mode |-> mode,
               align_corners |-> Omitted,
               recompute_scale_factor |-> b.recompute_scale_factor,
               antialias |-> b.antialias])

\* faulty variant: every resize is made bilinear
patched_interpolate_all_bilinear(original_interpolate, call) ==
    LET b == Bind(call)
    IN  Apply(original_interpolate,
              [input |-> b.input,
               size |-> b.size,
               scale_factor |-> b.scale_factor,
               mode |-> "bilinear",
               align_corners |-> b.align_corners,
               recompute_scale_factor |-> b.recompute_scale_factor,
               antialias |-> b.antialias])

\* faulty variant: the mode is passed on as it came
patched_interpolate_keeps_mode(original_interpolate, call) ==
    LET b == Bind(call)
    IN  Apply(original_interpolate,
              [input |-> b.input,
               size |-> b.size,
               scale_factor |-> b.scale_factor,
               mode |-> b.mode,
               align_corners |-> b.align_corners,
               recompute_scale_factor |-> b.recompute_scale_factor,
               antialias |-> b.antialias])

patched_interpolate(original_interpolate, call) ==
    LET b == Bind(call)
        mode == IF b.mode = "bicubic" THEN "bilinear" ELSE b.mode
    IN  Apply(original_interpolate,
              [input |-> b.input,
               size |-> b.size,
               scale_factor |-> b.scale_factor,
               mode |-> mode,
               align_corners |-> b.align_corners,
               recompute_scale_factor |-> b.recompute_scale_factor,
               antialias |-> b.antialias])

\* calling the dispatch entry f
Apply(f, call) ==
    IF f = original THEN OriginalInterpolate(call)
    ELSE patched_interpolate(f[1], call)

\* force_bicubic_to_bilinear up to its yield
Acquire ==
    /\ frames' = <<interpolate>> \o frames
    /\ interpolate' = Closure(interpolate)

\* faulty variant: the frame ends without putting original_interpolate back
ReleaseKeepsPatch ==
    /\ interpolate' = interpolate
    /\ frames' = Tail(frames)

\* the finally clause of force_bicubic_to_bilinear
Release ==
    /\ interpolate' = Head(frames)
    /\ frames' = Tail(frames)

-----------------------------------------------------------------------------
(* export_depth.main *)

Tensors == {"randn_a", "randn_b"}

\* the resize calls a wrapped model may make
ModelCalls ==
    {[input |-> "features", size |-> "(37, 37)", scale_factor |-> Omitted, mode |-> m,
      align_corners |-> a, recompute_scale_factor |-> Omitted, antialias |-> Omitted] :
        m \in {"bicubic", "bilinear"}, a \in {"False", Omitted}}

Forwards == UNION {[1..n -> ModelCalls] : n \in 0..MaxOps}

NoTrace == [n |-> 0, input |-> "none", ops |-> << >>]

\* torch.jit.trace(wrapper, dummy): runs forward once and records what executed
Trace(n) ==
    [n |-> n, input |-> dummy,
     ops |-> [i \in 1..Len(forward) |-> Apply(interpolate, forward[i])]]

NoArtifact == [trace |-> NoTrace]
Artifact(t) == [trace |-> t]

TraceEntry(t, f) ==
    [dispatch |-> interpolate, model |-> forward, input |-> dummy, eval |-> evalMode,
     result |-> t, failure |-> f]

\* INPUT_SIZE = (518, 518)
INPUT_SIZE == <<518, 518>>

\* a quotient of two decimal literals, as a fraction of integers
Ratio(n, d) == [num |-> n, den |-> d]

\* ct.ImageType(name="image", shape=(1, 3, *INPUT_SIZE), scale=1.0 / (255.0 * 0.226), bias=[...])
ImageType ==
    [name |-> "image",
     shape |-> <<1, 3>> \o INPUT_SIZE,
     scale |-> Ratio(1000, 255 * 226),
     bias |-> <<Ratio(-485, 229), Ratio(-456, 224), Ratio(-406, 225)>>]

\* faulty variant: the re-traced model is lowered for another platform version
ConvertArgsByAttempt(t) ==
    [model |-> t,
     inputs |-> <<ImageType>>,
     minimum_deployment_target |-> IF t.n > 1 THEN "iOS15" ELSE "iOS16"]

\* the arguments convert_traced_model gives ct.convert
ConvertArgs(t) ==
    [model |-> t,
     inputs |-> <<ImageType>>,
     minimum_deployment_target |-> "iOS16"]

LowerEntry(f) ==
    [trace |-> traced, failure |-> f, dispatch |-> interpolate, call |-> ConvertArgs(traced)]

DepthInit ==
    /\ pc = "load"
    /\ forward \in Forwards
    /\ dummy = "none"
    /\ evalMode = FALSE
    /\ traced = NoTrace
    /\ mlmodel = NoArtifact
    /\ error = NoError
    /\ raised = NoError
    /\ traceLog = << >>
    /\ lowerLog = << >>
    /\ events = << >>
    /\ persisted = << >>

\* faulty variant: wrapper.eval() is left out
LoadWithoutEval ==
    /\ pc = "load"
    /\ evalMode' = FALSE
    /\ dummy' \in Tensors
    /\ pc' = "trace1"
    /\ UNCHANGED <<forward, traced, mlmodel, error, raised, traceLog, lowerLog, events,
                   persisted, shimVars, clientVars, yoloVars>>

\* lines 85-89
Load ==
    /\ pc = "load"
    /\ evalMode' = TRUE
    /\ dummy' \in Tensors
    /\ pc' = "trace1"
    /\ UNCHANGED <<forward, traced, mlmodel, error, raised, traceLog, lowerLog, events,
                   persisted, shimVars, clientVars, yoloVars>>

LoadFail ==
    /\ pc = "load"
    /\ \E f \in Failures : raised' = f
    /\ pc' = "raised"
    /\ UNCHANGED <<forward, dummy, evalMode, traced, mlmodel, error, traceLog, lowerLog,
                   events, persisted, shimVars, clientVars, yoloVars>>

\* line 91
Trace1 ==
    /\ pc = "trace1"
    /\ traced' = Trace(Len(traceLog) + 1)
    /\ traceLog' = Append(traceLog, TraceEntry(traced', NoError))
    /\ events' = Append(events, "trace")
    /\ pc' = "convert1"
    /\ UNCHANGED <<forward, dummy, evalMode, mlmodel, error, raised, lowerLog, persisted,
                   shimVars, clientVars, yoloVars>>

Trace1Fail ==
    /\ pc = "trace1"
    /\ \E f \in Failures :
        /\ raised' = f
        /\ traceLog' = Append(traceLog, TraceEntry(NoTrace, f))
    /\ events' = Append(events, "trace_failed")
    /\ pc' = "raised"
    /\ UNCHANGED <<forward, dummy, evalMode, traced, mlmodel, error, lowerLog, persisted,
                   shimVars, clientVars, yoloVars>>

\* faulty variant: the re-trace is done even though the first lowering succeeded
Convert1ThenFallback ==
    /\ pc = "convert1"
    /\ mlmodel' = Artifact(traced)
    /\ lowerLog' = Append(lowerLog, LowerEntry(NoError))
    /\ events' = Append(events, "lower")
    /\ pc' = "with"
    /\ UNCHANGED <<forward, dummy, evalMode, traced, error, raised, traceLog, persisted,
                   shimVars, clientVars, yoloVars>>

\* line 94, convert_traced_model returns
Convert1 ==
    /\ pc = "convert1"
    /\ mlmodel' = Artifact(traced)
    /\ lowerLog' = Append(lowerLog, LowerEntry(NoError))
    /\ events' = Append(events, "lower")
    /\ pc' = "save"
    /\ UNCHANGED <<forward, dummy, evalMode, traced, error, raised, traceLog, persisted,
                   shimVars, clientVars, yoloVars>>

\* lines 94-98, convert_traced_model raises
Convert1Fail ==
    /\ pc = "convert1"
    /\ \E f \in Failures :
        /\ lowerLog' = Append(lowerLog, LowerEntry(f))
        /\ IF Caught(f) /\ ~Reraised(f)
           THEN /\ error' = f
                /\ pc' = "with"
                /\ raised' = raised
           ELSE /\ raised' = f
                /\ pc' = "raised"
                /\ error' = IF Caught(f) THEN f ELSE error
    /\ events' = Append(events, "lower_failed")
    /\ UNCHANGED <<forward, dummy, evalMode, traced, mlmodel, traceLog, persisted,
                   shimVars, clientVars, yoloVars>>

\* line 99, entering the with block
ShimEnter ==
    /\ pc = "with"
    /\ Acquire
    /\ activations' = activations + 1
    /\ events' = Append(events, "acquire")
    /\ pc' = "trace2"
    /\ UNCHANGED <<forward, dummy, evalMode, traced, mlmodel, error, raised, traceLog,
                   lowerLog, persisted, clientVars, yoloVars>>

\* faulty variant: the result of the re-trace is not bound to `traced`
Trace2KeepsFirst ==
    /\ pc = "trace2"
    /\ traced' = traced
    /\ traceLog' = Append(traceLog, TraceEntry(Trace(Len(traceLog) + 1), NoError))
    /\ events' = Append(events, "trace")
    /\ pc' = "exit"
    /\ UNCHANGED <<forward, dummy, evalMode, mlmodel, error, raised, lowerLog, persisted,
                   shimVars, clientVars, yoloVars>>

\* faulty variant: the sample input is drawn again for the re-trace
Trace2FreshInput ==
    /\ pc = "trace2"
    /\ dummy' \in Tensors
    /\ traced' = [Trace(Len(traceLog) + 1) EXCEPT !.input = dummy']
    /\ traceLog' = Append(traceLog, [TraceEntry(traced', NoError) EXCEPT !.input = dummy'])
    /\ events' = Append(events, "trace")
    /\ pc' = "exit"
    /\ UNCHANGED <<forward, evalMode, mlmodel, error, raised, lowerLog, persisted,
                   shimVars, clientVars, yoloVars>>

\* line 100
Trace2 ==
    /\ pc = "trace2"
    /\ traced' = Trace(Len(traceLog) + 1)
    /\ traceLog' = Append(traceLog, TraceEntry(traced', NoError))
    /\ events' = Append(events, "trace")
    /\ pc' = "exit"
    /\ UNCHANGED <<forward, dummy, evalMode, mlmodel, error, raised, lowerLog, persisted,
                   shimVars, clientVars, yoloVars>>

Trace2Fail ==
    /\ pc = "trace2"
    /\ \E f \in Failures :
        /\ raised' = f
        /\ traceLog' = Append(traceLog, TraceEntry(NoTrace, f))
    /\ events' = Append(events, "trace_failed")
    /\ pc' = "exit_raising"
    /\ UNCHANGED <<forward, dummy, evalMode, traced, mlmodel, error, lowerLog, persisted,
                   shimVars, clientVars, yoloVars>>

\* faulty variant: the with block also spans the second lowering
ShimExitLate ==
    /\ pc = "exit"
    /\ UNCHANGED shimVars
    /\ events' = events
    /\ pc' = "convert2"
    /\ UNCHANGED <<forward, dummy, evalMode, traced, mlmodel, error, raised, traceLog,
                   lowerLog, persisted, clientVars, yoloVars>>

\* leaving the with block normally: lines 59-60
ShimExit ==
    /\ pc = "exit"
    /\ Release
    /\ activations' = activations
    /\ events' = Append(events, "release")
    /\ pc' = "convert2"
    /\ UNCHANGED <<forward, dummy, evalMode, traced, mlmodel, error, raised, traceLog,
                   lowerLog, persisted, clientVars, yoloVars>>

\* faulty variant: no try/finally around the yield
ShimExitRaisingNoFinally ==
    /\ pc = "exit_raising"
    /\ interpolate' = interpolate
    /\ frames' = Tail(frames)
    /\ activations' = activations
    /\ events' = events
    /\ pc' = "raised"
    /\ UNCHANGED <<forward, dummy, evalMode, traced, mlmodel, error, raised, traceLog,
                   lowerLog, persisted, clientVars, yoloVars>>

\* leaving the with block with the re-trace's exception in flight: lines 59-60
ShimExitRaising ==
    /\ pc = "exit_raising"
    /\ Release
    /\ activations' = activations
    /\ events' = Append(events, "release")
    /\ pc' = "raised"
    /\ UNCHANGED <<forward, dummy, evalMode, traced, mlmodel, error, raised, traceLog,
                   lowerLog, persisted, clientVars, yoloVars>>

\* line 101
Convert2 ==
    /\ pc = "convert2"
    /\ mlmodel' = Artifact(traced)
    /\ lowerLog' = Append(lowerLog, LowerEntry(NoError))
    /\ events' = Append(events, "lower")
    /\ pc' = "save"
    /\ UNCHANGED <<forward, dummy, evalMode, traced, error, raised, traceLog, persisted,
                   shimVars, clientVars, yoloVars>>

\* faulty variant: the second failure is replaced by the first
Convert2FailRaisesFirst ==
    /\ pc = "convert2"
    /\ \E f \in Failures :
        /\ lowerLog' = Append(lowerLog, LowerEntry(f))
        /\ raised' = error
    /\ events' = Append(events, "lower_failed")
    /\ pc' = "raised"
    /\ UNCHANGED <<forward, dummy, evalMode, traced, mlmodel, error, traceLog, persisted,
                   shimVars, clientVars, yoloVars>>

\* faulty variant: the second failure is swallowed and the run goes on to save
Convert2FailSwallowed ==
    /\ pc = "convert2"
    /\ \E f \in Failures : lowerLog' = Append(lowerLog, LowerEntry(f))
    /\ events' = Append(events, "lower_failed")
    /\ pc' = "save"
    /\ UNCHANGED <<forward, dummy, evalMode, traced, mlmodel, error, raised, traceLog,
                   persisted, shimVars, clientVars, yoloVars>>

\* faulty variant: a second round of fallback after the second failure
Convert2FailSecondRound ==
    /\ pc = "convert2"
    /\ \E f \in Failures :
        /\ lowerLog' = Append(lowerLog, LowerEntry(f))
        /\ IF Caught(f) /\ ~Reraised(f) /\ Len(lowerLog) < 3
           THEN /\ error' = f
                /\ pc' = "with"
                /\ raised' = raised
           ELSE /\ raised' = f
                /\ pc' = "raised"
                /\ error' = error
    /\ events' = Append(events, "lower_failed")
    /\ UNCHANGED <<forward, dummy, evalMode, traced, mlmodel, traceLog, persisted,
                   shimVars, clientVars, yoloVars>>

\* faulty variant: the fallback is a loop
Convert2FailRetries ==
    /\ pc = "convert2"
    /\ \E f \in Failures :
        /\ lowerLog' = Append(lowerLog, LowerEntry(f))
        /\ IF Caught(f) /\ ~Reraised(f)
           THEN /\ error' = f
                /\ pc' = "with"
                /\ raised' = raised
           ELSE /\ raised' = f
                /\ pc' = "raised"
                /\ error' = error
    /\ events' = Append(events, "lower_failed")
    /\ UNCHANGED <<forward, dummy, evalMode, traced, mlmodel, traceLog, persisted,
                   shimVars, clientVars, yoloVars>>

Convert2Fail ==
    /\ pc = "convert2"
    /\ \E f \in Failures :
        /\ lowerLog' = Append(lowerLog, LowerEntry(f))
        /\ raised' = f
    /\ events' = Append(events, "lower_failed")
    /\ pc' = "raised"
    /\ UNCHANGED <<forward, dummy, evalMode, traced, mlmodel, error, traceLog, persisted,
                   shimVars, clientVars, yoloVars>>

\* lines 103-104
Save ==
    /\ pc = "save"
    /\ persisted' = Append(persisted, mlmodel)
    /\ events' = Append(events, "save")
    /\ pc' = "done"
    /\ UNCHANGED <<forward, dummy, evalMode, traced, mlmodel, error, raised, traceLog,
                   lowerLog, shimVars, clientVars, yoloVars>>

SaveFail ==
    /\ pc = "save"
    /\ \E f \in Failures : raised' = f
    /\ events' = Append(events, "save_failed")
    /\ pc' = "raised"
    /\ UNCHANGED <<forward, dummy, evalMode, traced, mlmodel, error, traceLog, lowerLog,
                   persisted, shimVars, clientVars, yoloVars>>

-----------------------------------------------------------------------------
(* A client of force_bicubic_to_bilinear: opens scopes one after another and  *)
(* inside one another, calls F.interpolate inside and outside them, and lets  *)
(* exceptions propagate out of scopes.                                        *)

\* most scopes the client opens in one run
MaxActivations == 3

Calls ==
    [input : {"x", "y"},
     size : {Omitted, "None", "(37, 37)"},
     scale_factor : {Omitted, "None", "2.0"},
     mode : {Omitted, "nearest", "bilinear", "bicubic", "area"},
     align_corners : {Omitted, "None", "True", "False"},
     recompute_scale_factor : {Omitted, "None", "True"},
     antialias : {Omitted, "True", "False"}]

\* `with force_bicubic_to_bilinear():`
ClientEnter ==
    /\ pc = "client"
    /\ ~unwinding
    /\ calls = << >>
    /\ Len(frames) < MaxDepth
    /\ activations < MaxActivations
    /\ Acquire
    /\ activations' = activations + 1
    /\ peak' = IF Len(frames') > peak THEN Len(frames') ELSE peak
    /\ UNCHANGED <<yoloVars, depthVars, calls, unwinding>>

\* F.interpolate(input, ...)
ClientCall ==
    /\ pc = "client"
    /\ ~unwinding
    /\ calls = << >>
    /\ \E c \in Calls :
        calls' = <<[args |-> c, executed |-> Apply(interpolate, c), depth |-> Len(frames)]>>
    /\ UNCHANGED <<yoloVars, depthVars, shimVars, unwinding, peak>>

\* the call returns
ClientReturn ==
    /\ pc = "client"
    /\ calls # << >>
    /\ calls' = << >>
    /\ UNCHANGED <<yoloVars, depthVars, shimVars, unwinding, peak>>

\* something inside a scope raises
ClientRaise ==
    /\ pc = "client"
    /\ ~unwinding
    /\ calls = << >>
    /\ frames # << >>
    /\ unwinding' = TRUE
    /\ UNCHANGED <<yoloVars, depthVars, shimVars, calls, peak>>

\* the innermost with block is left, normally or by the exception: lines 59-60
ClientExit ==
    /\ pc = "client"
    /\ calls = << >>
    /\ frames # << >>
    /\ Release
    /\ UNCHANGED <<yoloVars, depthVars, activations, clientVars, yoloVars>>

\* the exception is caught by the code around the scopes left so far
ClientCatch ==
    /\ pc = "client"
    /\ unwinding
    /\ unwinding' = FALSE
    /\ UNCHANGED <<yoloVars, depthVars, shimVars, calls, peak>>

-----------------------------------------------------------------------------
(* export_yolo.main *)

\* most command-line arguments
MaxArgs == 3

Fp32Flag == <<"-", "-", "f", "p", "3", "2">>
HelpFlags == {<<"-", "h">>, <<"-", "-", "h", "e", "l", "p">>}
Tokens == {Fp32Flag, <<"-", "-", "f", "p">>, <<"-", "h">>, <<"x">>}
Argvs == UNION {[1..n -> Tokens] : n \in 0..MaxArgs}

IsPrefix(s, t) == Len(s) <= Len(t) /\ SubSeq(t, 1, Len(s)) = s

\* argparse takes a long option by any unambiguous prefix of it
SelectsFp32(tok) == Len(tok) > 2 /\ IsPrefix(tok, Fp32Flag)

\* parser.parse_args() with the one store_true option --fp32 (and the automatic -h)
ParseOutcome(av) ==
    IF \E i \in DOMAIN av : av[i] \in HelpFlags THEN "help"
    ELSE IF \E i \in DOMAIN av : ~SelectsFp32(av[i]) THEN "usage" ELSE "ok"

ParsedFp32(av) == \E i \in DOMAIN av : SelectsFp32(av[i])

\* imgsz=640
Imgsz == 640

\* faulty variant: the flag is passed on as it is
HalfIsFlag(fp32) == fp32

\* half = not args.fp32
Half(fp32) == ~fp32

\* precision = "FP32" if args.fp32 else "FP16"
Precision(fp32) == IF fp32 THEN "FP32" ELSE "FP16"

YoloIdle ==
    /\ ypc = "off"
    /\ argv = << >>
    /\ args = [fp32 |-> FALSE]
    /\ half = FALSE
    /\ exportLog = << >>
    /\ printed = ""
    /\ exited = ""

YoloInit ==
    /\ ypc = "parse"
    /\ argv \in Argvs
    /\ args = [fp32 |-> FALSE]
    /\ half = FALSE
    /\ exportLog = << >>
    /\ printed = ""
    /\ exited = ""

\* lines 23-28
ParseArgs ==
    /\ ypc = "parse"
    /\ ParseOutcome(argv) = "ok"
    /\ args' = [fp32 |-> ParsedFp32(argv)]
    /\ ypc' = "load"
    /\ UNCHANGED <<argv, half, exportLog, printed, exited, depthVars, shimVars, clientVars>>

\* line 28: parse_args prints the help or a usage error and exits
ParseExit ==
    /\ ypc = "parse"
    /\ ParseOutcome(argv) # "ok"
    /\ exited' = ParseOutcome(argv)
    /\ ypc' = "exited"
    /\ UNCHANGED <<argv, args, half, exportLog, printed, depthVars, shimVars, clientVars>>

\* lines 30-32
LoadYolo ==
    /\ ypc = "load"
    /\ half' = Half(args.fp32)
    /\ ypc' = "export"
    /\ UNCHANGED <<argv, args, exportLog, printed, exited, depthVars, shimVars, clientVars>>

\* line 30: YOLO("yolo11n.pt") raises
LoadYoloFail ==
    /\ ypc = "load"
    /\ exited' = "load"
    /\ ypc' = "exited"
    /\ UNCHANGED <<argv, args, half, exportLog, printed, depthVars, shimVars, clientVars>>

ExportCall == [format |-> "coreml", nms |-> TRUE, half |-> half, imgsz |-> Imgsz]

\* lines 34-39
Export ==
    /\ ypc = "export"
    /\ exportLog' = Append(exportLog, ExportCall)
    /\ ypc' = "report"
    /\ UNCHANGED <<argv, args, half, printed, exited, depthVars, shimVars, clientVars>>

\* lines 34-39: model.export raises
ExportFail ==
    /\ ypc = "export"
    /\ exportLog' = Append(exportLog, ExportCall)
    /\ exited' = "export"
    /\ ypc' = "exited"
    /\ UNCHANGED <<argv, args, half, printed, depthVars, shimVars, clientVars>>

\* lines 41-43
Report ==
    /\ ypc = "report"
    /\ printed' = Precision(args.fp32)
    /\ ypc' = "done"
    /\ UNCHANGED <<argv, args, half, exportLog, exited, depthVars, shimVars, clientVars>>

vars == <<depthVars, shimVars, clientVars, yoloVars>>

ShimInit ==
    /\ interpolate = original
    /\ frames = << >>
    /\ activations = 0

ClientInit ==
    /\ calls = << >>
    /\ unwinding = FALSE
    /\ peak = 0

Init ==
    /\ DepthInit
    /\ ShimInit
    /\ ClientInit
    /\ YoloIdle

\* the shim used on its own: main never runs
ShimClientInit ==
    /\ pc = "client"
    /\ forward = << >>
    /\ dummy = "none"
    /\ evalMode = FALSE
    /\ traced = NoTrace
    /\ mlmodel = NoArtifact
    /\ error = NoError
    /\ raised = NoError
    /\ traceLog = << >>
    /\ lowerLog = << >>
    /\ events = << >>
    /\ persisted = << >>
    /\ ShimInit
    /\ ClientInit
    /\ YoloIdle

\* export_yolo on its own
DepthIdle ==
    /\ pc = "off"
    /\ forward = << >>
    /\ dummy = "none"
    /\ evalMode = FALSE
    /\ traced = NoTrace
    /\ mlmodel = NoArtifact
    /\ error = NoError
    /\ raised = NoError
    /\ traceLog = << >>
    /\ lowerLog = << >>
    /\ events = << >>
    /\ persisted = << >>

YoloSpecInit ==
    /\ DepthIdle
    /\ ShimInit
    /\ ClientInit
    /\ YoloInit


Next ==
    \/ Load \/ LoadFail
    \/ Trace1 \/ Trace1Fail
    \/ Convert1 \/ Convert1Fail
    \/ ShimEnter
    \/ Trace2 \/ Trace2Fail
    \/ ShimExit \/ ShimExitRaising
    \/ Convert2 \/ Convert2Fail
    \/ Save \/ SaveFail

Spec == Init /\ [][Next]_vars

\* main is one sequential script: every call it makes returns or raises
FairSpec == Spec /\ WF_vars(Next)

ShimNext ==
    \/ ClientEnter \/ ClientCall \/ ClientReturn
    \/ ClientRaise \/ ClientExit \/ ClientCatch

ShimSpec == ShimClientInit /\ [][ShimNext]_vars

YoloNext ==
    \/ ParseArgs \/ ParseExit
    \/ LoadYolo \/ LoadYoloFail
    \/ Export \/ ExportFail
    \/ Report

YoloSpec == YoloSpecInit /\ [][YoloNext]_vars

-----------------------------------------------------------------------------
(* Properties *)

Terminal == pc \in {"done", "raised"}

\* an unsupported-operator failure: the converter rejected operator f.op
UnsupportedOperator(f) == f.cls = "NotImplementedError" /\ f.op # NoOp
FailsWithKnown(f) == UnsupportedOperator(f) /\ f.op = KnownOp

Count(seq, e) == Cardinality({i \in DOMAIN seq : seq[i] = e})

FallbackEntered == pc = "with" \/ activations > 0

TracesSucceeded == \A i \in DOMAIN traceLog : traceLog[i].failure = NoError

\* C1: when every lowering call fails with the known unsupported operator
\* (and tracing itself succeeds), there are never more than two lowering
\* attempts, and the run ends by propagating the failure of the second attempt:
\* it is neither caught nor replaced, and nothing is saved.
C1_TwoAttemptsThenPropagate ==
    (/\ lowerLog # << >>
     /\ \A i \in DOMAIN lowerLog : FailsWithKnown(lowerLog[i].failure)
     /\ TracesSucceeded)
    => /\ Len(lowerLog) <= 2
       /\ pc # "done"
       /\ Len(lowerLog) = 2 => pc = "raised"
       /\ Terminal => /\ Len(lowerLog) = 2
                       /\ raised = lowerLog[2].failure
                       /\ persisted = << >>

C1_Witness ==
    /\ pc = "raised"
    /\ Len(lowerLog) = 2
    /\ \A i \in DOMAIN lowerLog : FailsWithKnown(lowerLog[i].failure)
    /\ lowerLog[1].failure # lowerLog[2].failure
    /\ raised = lowerLog[2].failure

\* C2: when the first lowering attempt fails with an unsupported-operator
\* failure for an operator other than the known one, the shim is never
\* activated, there is no second trace and no second lowering attempt, and the
\* run ends by propagating that same failure.
C2_OtherOperatorPropagates ==
    (/\ lowerLog # << >>
     /\ UnsupportedOperator(lowerLog[1].failure)
     /\ lowerLog[1].failure.op # KnownOp)
    => /\ activations = 0
       /\ interpolate = original
       /\ Len(traceLog) = 1
       /\ Len(lowerLog) = 1
       /\ pc = "raised"
       /\ raised = lowerLog[1].failure

\* C3: when the first lowering attempt succeeds, the shim is never activated,
\* there is exactly one trace and exactly one lowering call, and the result is
\* the artifact lowered from the first trace.
C3_SuccessShortCircuits ==
    (lowerLog # << >> /\ lowerLog[1].failure = NoError)
    => /\ activations = 0
       /\ interpolate = original
       /\ Len(traceLog) = 1
       /\ Len(lowerLog) = 1
       /\ lowerLog[1].trace = traceLog[1].result
       /\ mlmodel = Artifact(traceLog[1].result)
       /\ pc \in {"save", "done", "raised"}
       /\ \A i \in DOMAIN persisted : persisted[i] = Artifact(traceLog[1].result)

C3_Witness ==
    /\ pc = "done"
    /\ Len(lowerLog) = 1
    /\ lowerLog[1].failure = NoError
    /\ forward # << >>
    /\ persisted = <<Artifact(traceLog[1].result)>>

\* the orders of events a run that enters the fallback can go through
FallbackOrders ==
    {<<"trace", "lower_failed", "acquire", "trace", "release", "lower", "save">>,
     <<"trace", "lower_failed", "acquire", "trace", "release", "lower", "save_failed">>,
     <<"trace", "lower_failed", "acquire", "trace", "release", "lower_failed">>,
     <<"trace", "lower_failed", "acquire", "trace_failed", "release">>}

\* C4: in the fallback path the order is: first lowering fails, shim acquired,
\* re-trace, shim released, second lowering. The override is in effect while
\* the second trace runs and at no other point: not during the first trace,
\* either lowering call, or afterwards.
C4_OverrideOnlyDuringRetrace ==
    /\ FallbackEntered => \E o \in FallbackOrders : IsPrefix(events, o)
    /\ pc \in {"load", "trace1", "convert1", "with", "convert2", "save", "done", "raised"}
        => interpolate = original
    /\ pc = "trace2" => interpolate = Closure(original)
    /\ \A i \in DOMAIN lowerLog : lowerLog[i].dispatch = original
    /\ \A i \in DOMAIN traceLog :
        traceLog[i].dispatch = IF i = 1 THEN original ELSE Closure(original)

C4_Witness ==
    /\ pc = "done"
    /\ events = <<"trace", "lower_failed", "acquire", "trace", "release", "lower", "save">>
    /\ traceLog[2].dispatch = Closure(original)
    /\ lowerLog[2].dispatch = original

RECURSIVE Nest(_)
Nest(n) == IF n = 0 THEN original ELSE Closure(Nest(n - 1))

\* C5: with scopes opened one after another and inside one another, the
\* dispatch entry is always the original wrapped once per scope still open, so
\* every exit puts back the entry that was there at the matching entry; with
\* every scope left the entry is the original, and a call outside any scope
\* is executed as torch's interpolate executes it (bicubic stays bicubic).
C5_ScopesRestoreDispatch ==
    /\ interpolate = Nest(Len(frames))
    /\ frames = << >> => interpolate = original
    /\ (calls # << >> /\ calls[1].depth = 0)
        => calls[1].executed = OriginalInterpolate(calls[1].args)

C5_Witness ==
    /\ frames = << >>
    /\ peak >= 2
    /\ activations >= 3
    /\ calls # << >>
    /\ calls[1].args.mode = "bicubic"
    /\ calls[1].executed.mode = "bicubic"

\* C6: the shim is released on every way out of its scope. When the re-trace
\* fails, the original dispatch is back when the failure leaves main, the
\* failure is the one the trace raised, and no second lowering is attempted.
\* Outside the scope there are as many releases as acquisitions, and in every
\* terminal state the dispatch entry is the original.
C6_ReleasedOnEveryExit ==
    /\ Terminal => interpolate = original /\ frames = << >>
    /\ Count(events, "release") <= Count(events, "acquire")
    /\ pc \notin {"trace2", "exit", "exit_raising"}
        => Count(events, "release") = activations /\ Count(events, "acquire") = activations
    /\ (Len(traceLog) = 2 /\ traceLog[2].failure # NoError)
        => /\ pc \in {"exit_raising", "raised"}
           /\ raised = traceLog[2].failure
           /\ Len(lowerLog) = 1
           /\ mlmodel = NoArtifact

C6_Witness ==
    /\ pc = "raised"
    /\ Len(traceLog) = 2
    /\ FailsWithKnown(traceLog[2].failure)
    /\ raised = traceLog[2].failure
    /\ interpolate = original
    /\ Count(events, "release") = 1

\* C7: inside a scope (at any nesting depth) a bicubic call is executed by
\* torch's interpolate as the same call with mode bilinear: input, size,
\* scale_factor, align_corners, recompute_scale_factor and antialias arrive
\* as the caller gave them.
C7_BicubicForwardedAsBilinear ==
    (/\ calls # << >>
     /\ calls[1].depth >= 1
     /\ calls[1].args.mode = "bicubic")
    => calls[1].executed = OriginalInterpolate([calls[1].args EXCEPT !.mode = "bilinear"])

C7_Witness ==
    /\ calls # << >>
    /\ calls[1].depth = 2
    /\ calls[1].args = [input |-> "y", size |-> "(37, 37)", scale_factor |-> "None",
                         mode |-> "bicubic", align_corners |-> "True",
                         recompute_scale_factor |-> "True", antialias |-> "True"]
    /\ calls[1].executed = [calls[1].args EXCEPT !.mode = "bilinear"]

\* C8: the fallback is entered if and only if the first lowering attempt fails
\* with an unsupported-operator failure for the known operator; any other
\* first failure ends the run: no shim, no second trace, no second lowering,
\* and that failure propagates.
C8_FallbackIffKnownOperator ==
    lowerLog # << >>
    => LET f == lowerLog[1].failure
       IN  /\ FallbackEntered <=> FailsWithKnown(f)
           /\ (f # NoError /\ ~FailsWithKnown(f))
               => /\ activations = 0
                  /\ Len(traceLog) = 1
                  /\ Len(lowerLog) = 1
                  /\ pc = "raised"
                  /\ raised = f

\* C9: the export is called at most once, with format coreml, NMS on, image
\* size 640 and half = TRUE unless the command line selects --fp32, and then
\* half = FALSE; the label printed is FP16 when half was passed as TRUE and
\* FP32 when it was passed as FALSE; a failed export is not retried.
C9_YoloPrecision ==
    /\ Len(exportLog) <= 1
    /\ \A i \in DOMAIN exportLog :
        /\ exportLog[i].format = "coreml"
        /\ exportLog[i].nms = TRUE
        /\ exportLog[i].imgsz = 640
        /\ exportLog[i].half = ~(\E k \in DOMAIN argv : SelectsFp32(argv[k]))
        /\ argv = << >> => exportLog[i].half
        /\ (\E k \in DOMAIN argv : argv[k] = Fp32Flag) => ~exportLog[i].half
    /\ printed # "" => /\ Len(exportLog) = 1
                       /\ printed = IF exportLog[1].half THEN "FP16" ELSE "FP32"
    /\ exited = "export" => ypc = "exited" /\ Len(exportLog) = 1 /\ printed = ""

C9_Witness ==
    /\ ypc = "done"
    /\ argv = <<Fp32Flag>>
    /\ exportLog = <<[format |-> "coreml", nms |-> TRUE, half |-> FALSE, imgsz |-> Imgsz]>>
    /\ printed = "FP32"

\* C10: at most one override is active at any time: main enters the shim at
\* most once, never while an earlier scope is open, and the dispatch entry is
\* never wrapped more than once.
C10_AtMostOneOverride ==
    /\ Len(frames) <= 1
    /\ activations <= 1
    /\ interpolate \in {original, Closure(original)}
    /\ Count(events, "acquire") <= 1

C10_Witness ==
    /\ pc = "trace2"
    /\ Len(frames) = 1
    /\ activations = 1
    /\ interpolate = Closure(original)

\* C11: every trace call of a run is given the same model and the same sample
\* input: the input is drawn once, before the first trace, and the re-trace
\* in the fallback gets that very tensor and that very wrapper.
C11_SameModelAndInput ==
    /\ \A i \in DOMAIN traceLog :
        /\ traceLog[i].input = traceLog[1].input
        /\ traceLog[i].model = traceLog[1].model
        /\ traceLog[i].input = dummy
        /\ traceLog[i].model = forward
        /\ traceLog[i].input \in Tensors
    /\ \A i \in DOMAIN lowerLog : lowerLog[i].trace.input = traceLog[1].input

C11_Witness ==
    /\ Len(traceLog) = 2
    /\ traceLog[2].failure = NoError
    /\ traceLog[2].input = traceLog[1].input
    /\ traceLog[2].model = traceLog[1].model
    /\ traceLog[2].model # << >>
    /\ traceLog[2].dispatch # original

\* a recorded resize with bicubic replaced by bilinear and nothing else changed
Substituted(op) == IF op.mode = "bicubic" THEN [op EXCEPT !.mode = "bilinear"] ELSE op

TraceOk(i) == i \in DOMAIN traceLog /\ traceLog[i].failure = NoError

C13_FreshTracePerAttempt ==
    /\ Len(lowerLog) <= Len(traceLog)
    /\ \A i \in DOMAIN lowerLog :
        /\ TraceOk(i)
        /\ lowerLog[i].trace = traceLog[i].result
        /\ lowerLog[i].trace.n = i
    /\ \A i, j \in DOMAIN lowerLog : i # j => lowerLog[i].trace # lowerLog[j].trace
    /\ Len(lowerLog) = 2 => traceLog[2].dispatch = Closure(original)
    /\ pc \in {"convert1", "convert2"} => traced = traceLog[Len(traceLog)].result

C13_Witness ==
    /\ Len(lowerLog) = 2
    /\ lowerLog[1].trace = traceLog[1].result
    /\ lowerLog[2].trace = traceLog[2].result
    /\ lowerLog[2].trace.ops # lowerLog[1].trace.ops

\* C14: whatever the tracer and the lowering function do on each call, a run
\* makes at most two lowering calls, at most two trace calls and at most one
\* shim activation, what follows the second lowering call is only the save or
\* the propagated failure, and the run reaches a terminal state.
C14_TerminatesWithinBounds ==
    /\ [](/\ Len(lowerLog) <= 2
          /\ Len(traceLog) <= 2
          /\ activations <= 1
          /\ Len(lowerLog) = 2 => pc \in {"save", "done", "raised"}
          /\ (Len(lowerLog) = 2 /\ lowerLog[2].failure # NoError)
              => pc = "raised" /\ raised = lowerLog[2].failure)
    /\ <>Terminal

C14_Witness ==
    /\ pc = "raised"
    /\ Len(lowerLog) = 2
    /\ Len(traceLog) = 2
    /\ activations = 1
    /\ Caught(lowerLog[2].failure)
    /\ ~Reraised(lowerLog[2].failure)

\* C15: every lowering call is given the same target: one image input named
\* image of shape (1, 3, 518, 518), scale 1/(255*0.226), bias
\* (-0.485/0.229, -0.456/0.224, -0.406/0.225) and minimum version iOS16. Between
\* the two attempts only the trace differs.
C15_SameTargetSpec ==
    /\ \A i \in DOMAIN lowerLog :
        /\ lowerLog[i].call.inputs =
               <<[name |-> "image",
                  shape |-> <<1, 3, 518, 518>>,
                  scale |-> [num |-> 1000, den |-> 57630],
                  bias |-> <<[num |-> -485, den |-> 229],
                             [num |-> -456, den |-> 224],
                             [num |-> -406, den |-> 225]>>]>>
        /\ lowerLog[i].call.minimum_deployment_target = "iOS16"
        /\ lowerLog[i].call.model = lowerLog[i].trace
    /\ \A i, j \in DOMAIN lowerLog :
        /\ lowerLog[i].call.inputs = lowerLog[j].call.inputs
        /\ lowerLog[i].call.minimum_deployment_target
               = lowerLog[j].call.minimum_deployment_target

C15_Witness ==
    /\ Len(lowerLog) = 2
    /\ lowerLog[1].call.model # lowerLog[2].call.model
    /\ lowerLog[1].call.inputs = lowerLog[2].call.inputs
    /\ lowerLog[2].call.inputs[1].shape = <<1, 3, 518, 518>>

\* C16: inside a scope (at any nesting depth) a call whose mode is not bicubic
\* (nearest, bilinear, area, or no mode given, which means nearest) is
\* executed by torch's interpolate exactly as it would be outside a scope,
\* with the mode it came with.
C16_OtherModesUntouched ==
    (/\ calls # << >>
     /\ calls[1].depth >= 1
     /\ calls[1].args.mode # "bicubic")
    => /\ calls[1].executed = OriginalInterpolate(calls[1].args)
       /\ calls[1].executed.mode =
              IF calls[1].args.mode = Omitted THEN "nearest" ELSE calls[1].args.mode

C16_Witness ==
    /\ calls # << >>
    /\ calls[1].depth = 2
    /\ calls[1].args.mode = Omitted
    /\ calls[1].args.align_corners = "True"
    /\ calls[1].executed.mode = "nearest"
    /\ calls[1].executed.align_corners = "True"

\* C17: the artifact is saved at most once, only when the last lowering call
\* made has succeeded, and what is saved is the result of that call (lowered
\* from the first trace when the first attempt succeeded, from the re-trace in
\* the fallback); a run that ends with a propagated load, trace or lowering
\* failure has saved nothing.
C17_SavedOnceAfterSuccess ==
    /\ Len(persisted) <= 1
    /\ Count(events, "save") = Len(persisted)
    /\ persisted # << >>
        => /\ pc = "done"
           /\ lowerLog # << >>
           /\ lowerLog[Len(lowerLog)].failure = NoError
           /\ persisted[1] = Artifact(lowerLog[Len(lowerLog)].trace)
           /\ persisted[1] = Artifact(traceLog[Len(lowerLog)].result)
           /\ persisted[1] # NoArtifact
    /\ pc = "raised" => persisted = << >>
    /\ pc = "done" => Len(persisted) = 1

C17_Witness ==
    /\ pc = "done"
    /\ Len(lowerLog) = 2
    /\ forward # << >>
    /\ persisted = <<Artifact(traceLog[2].result)>>
    /\ persisted[1] # Artifact(traceLog[1].result)

\* C18: every trace call, the re-trace included, is made with the wrapper in
\* evaluation mode, and from the first trace on the wrapper stays in
\* evaluation mode.
C18_TracedInEvalMode ==
    /\ \A i \in DOMAIN traceLog : traceLog[i].eval
    /\ traceLog # << >> => evalMode
    /\ pc \in {"trace1", "convert1", "with", "trace2", "exit", "exit_raising", "convert2"}
        => evalMode

C18_Witness ==
    /\ Len(traceLog) = 2
    /\ traceLog[1].eval
    /\ traceLog[2].eval
    /\ traceLog[2].dispatch = Closure(original)
    /\ evalMode

====
